---- MODULE Spec2Model ----
(***************************************************************************)
(* A model of the regulus_back service: the /auth routes (auth/router.py,  *)
(* auth/tools.py), the /chat routes (chat/router.py, chat/tools.py), the   *)
(* ORM entities (db/models.py) and the AI bridge (gpt/gpt.py).             *)
(*                                                                         *)
(* Every route handler is one action.  A handler's inputs (bearer token,   *)
(* path and body parameters, and the outcome of each remote call) are      *)
(* drawn from small sets.  `resp` records the request just served and its  *)
(* response, so that properties can speak about the outcome.               *)
(* PollSpec runs send_message in steps, split where the handler waits for  *)
(* a remote run; `request` is the handler that waits.                      *)
(*                                                                         *)
(* Time is a discrete clock `now`; a JWT is the record of its claims and   *)
(* of the key that signed it.                                              *)
(***************************************************************************)
EXTENDS Integers, Sequences, FiniteSets, TLC

VARIABLES now, db, remote, resp, session_on_error, request

vars == <<now, db, remote, resp, session_on_error, request>>

-----------------------------------------------------------------------------
(* Bounds of the model *)

MaxTime == 3
MaxThreads == 2
MaxFiles == 1
MaxChats == 1
MaxMessages == 2
(* clock ticks while the chat routes are served *)
MaxChatTime == 1
(* message rows and file rows in the tables a chat is deleted from *)
MaxDeleteRows == 2
(* rows of the chats table the chat listing is served over *)
MaxListChats == 3

(* Token lifetimes (configs.py reads them from the environment); in clock  *)
(* ticks                                                                   *)
ACCESS_TOKEN_EXPIRE_MINUTES == 1
REFRESH_TOKEN_EXPIRE_DAYS == 2

-----------------------------------------------------------------------------
(* HTTP status codes used by the handlers *)

HTTP_200_OK == 200
HTTP_400_BAD_REQUEST == 400
HTTP_401_UNAUTHORIZED == 401
HTTP_403_FORBIDDEN == 403
HTTP_404_NOT_FOUND == 404
HTTP_500_INTERNAL_SERVER_ERROR == 500

-----------------------------------------------------------------------------
(* Input domains *)

Usernames == {"alice", "bob"}
NoSub == "None"
NoEmail == "None"
Emails == {NoEmail, "e1@x"}
Passwords == {"p1", "p2"}
(* the passwords users register with *)
RegisterPasswords == {"p1"}

ACCESS_TOKEN_SECRET_KEY == "access-key"
REFRESH_TOKEN_SECRET_KEY == "refresh-key"
ForgedKey == "other-key"
NoKey == "None"

(* the NULL refresh_token column *)
NoToken == [sub |-> NoSub, exp |-> 0, key |-> NoKey]

(* Outcome of a handler that raised: the request's session (db/session.py, *)
(* not part of the sources) either discards the flushed rows or keeps      *)
(* them.  Which of the two it does is fixed for a deployment and held in   *)
(* session_on_error.                                                       *)
SessionOnError == {"rollback", "commit"}

(* no send_message is waiting for a run *)
NoRequest == [pc |-> "idle"]

(* what the session holds after a handler raised *)
SessionEnd(end, durable, flushed) == IF end = "commit" THEN flushed ELSE durable

-----------------------------------------------------------------------------
(* auth/tools.py *)

get_password_hash(password) == <<"bcrypt", password>>

(* a password check that accepts everything *)
verify_password_any(plain_password, hashed_password) == TRUE

verify_password(plain_password, hashed_password) ==
    hashed_password = get_password_hash(plain_password)

create_access_token(sub, t) ==
    [sub |-> sub, exp |-> t + ACCESS_TOKEN_EXPIRE_MINUTES, key |-> ACCESS_TOKEN_SECRET_KEY]

create_refresh_token(sub, t) ==
    [sub |-> sub, exp |-> t + REFRESH_TOKEN_EXPIRE_DAYS, key |-> REFRESH_TOKEN_SECRET_KEY]

(* jose.jwt.decode: TRUE when decoding raises JWTError (bad signature, or  *)
(* exp < now when expiry is verified)                                      *)
jwt_decode_fails(token, key, verify_exp, t) ==
    \/ token.key # key
    \/ verify_exp /\ token.exp < t

(* Bearer tokens a request may carry at time t: an access token minted at  *)
(* some time up to t for any username, one that carries no subject, and    *)
(* one signed with a key the server does not use.                          *)
BearerTokens(t) ==
    {create_access_token(s, t0) : s \in Usernames, t0 \in 0 .. t}
    \cup {create_access_token(NoSub, t),
          [sub |-> "alice", exp |-> t + ACCESS_TOKEN_EXPIRE_MINUTES, key |-> ForgedKey]}

-----------------------------------------------------------------------------
(* db/models.py: User *)

get_by_username(users, username) == {u \in users : u.username = username}

get_by_email(users, email) == {u \in users : u.email = email}

(* User.create without the email lookup *)
User_create_check_no_email(users, username, email) ==
    IF get_by_username(users, username) # {}
    THEN HTTP_400_BAD_REQUEST
    ELSE HTTP_200_OK

(* User.create's uniqueness checks: the status it raises, or 200 *)
User_create_check(users, username, email) ==
    IF get_by_username(users, username) # {}
    THEN HTTP_400_BAD_REQUEST
    ELSE IF email # NoEmail /\ get_by_email(users, email) # {}
         THEN HTTP_400_BAD_REQUEST
         ELSE HTTP_200_OK

new_user(d, username, hashed_password, email) ==
    [id |-> d.next_user_id, username |-> username, email |-> email,
     email_verified |-> FALSE, refresh_token |-> NoToken,
     hashed_password |-> hashed_password]

update_refresh_token(users, user, token) ==
    (users \ {user}) \cup {[user EXCEPT !.refresh_token = token]}

(* an UPDATE of refresh_token without the WHERE clause *)
delete_refresh_token_all(users, username) ==
    {[u EXCEPT !.refresh_token = NoToken] : u \in users}

delete_refresh_token(users, username) ==
    {IF u.username = username THEN [u EXCEPT !.refresh_token = NoToken] ELSE u : u \in users}

(* an UPDATE of email_verified without the WHERE clause *)
verify_email_confirmation_all(users, user) ==
    {[u EXCEPT !.email_verified = TRUE] : u \in users}

verify_email_confirmation(users, user) ==
    (users \ {user}) \cup {[user EXCEPT !.email_verified = TRUE]}

(* get_current_user decoding without the expiry check *)
get_current_user_no_exp(token, users, t) ==
    IF jwt_decode_fails(token, ACCESS_TOKEN_SECRET_KEY, FALSE, t) THEN {}
    ELSE IF token.sub = NoSub THEN {}
    ELSE get_by_username(users, token.sub)

(* get_current_user that also asks for a stored refresh token *)
get_current_user_logged_in(token, users, t) ==
    IF jwt_decode_fails(token, ACCESS_TOKEN_SECRET_KEY, TRUE, t) THEN {}
    ELSE IF token.sub = NoSub THEN {}
    ELSE {u \in get_by_username(users, token.sub) : u.refresh_token # NoToken}

(* get_current_user: the set holding the authenticated user, empty when    *)
(* the guard raises 401                                                    *)
get_current_user(token, users, t) ==
    IF jwt_decode_fails(token, ACCESS_TOKEN_SECRET_KEY, TRUE, t) THEN {}
    ELSE IF token.sub = NoSub THEN {}
    ELSE get_by_username(users, token.sub)

-----------------------------------------------------------------------------
(* auth/schemas.py *)

Token_required == {"access_token", "refresh_token", "token_type"}

(* Token(kwargs): pydantic raises ValidationError when a required field  *)
(* is not given                                                            *)
Token_validates(kwargs) == Token_required \subseteq DOMAIN kwargs

user_to_response(user) ==
    [id |-> user.id, username |-> user.username, email |-> user.email,
     email_verified |-> user.email_verified]

-----------------------------------------------------------------------------
(* The response record *)

NoBody == [detail |-> "none"]
NoArgs == [none |-> TRUE]

Response(op, status, token, args, body, calls) ==
    [op |-> op, status |-> status, token |-> token, args |-> args,
     body |-> body, calls |-> calls]

-----------------------------------------------------------------------------
(* State after construction: empty tables, no remote resources *)

EmptyDb ==
    [users |-> {}, vector_stores |-> {}, chats |-> {}, messages |-> {}, files |-> {},
     next_user_id |-> 1, next_chat_id |-> 1, next_message_id |-> 1]

EmptyRemote ==
    [vector_stores |-> {}, threads |-> {}, files |-> {}, attached |-> {},
     next_vector_store |-> 1, next_thread |-> 1, next_file |-> 1]

Init ==
    /\ session_on_error \in SessionOnError
    /\ request = NoRequest
    /\ now = 0
    /\ db = EmptyDb
    /\ remote = EmptyRemote
    /\ resp = Response("none", HTTP_200_OK, NoToken, NoArgs, NoBody, <<>>)

Tick ==
    /\ now < MaxTime
    /\ now' = now + 1
    /\ resp' = Response("none", HTTP_200_OK, NoToken, NoArgs, NoBody, <<>>)
    /\ UNCHANGED <<db, remote, session_on_error, request>>

-----------------------------------------------------------------------------
(* auth/router.py *)

(* POST /auth/register *)
register(username, email, password) ==
    LET args == [username |-> username, email |-> email]
        chk == User_create_check(db.users, username, email)
        user == new_user(db, username, get_password_hash(password), email)
        flushed == [db EXCEPT !.users = @ \cup {user}, !.next_user_id = @ + 1]
        vsid == remote.next_vector_store
    IN  /\ UNCHANGED <<now, session_on_error, request>>
        /\ IF chk # HTTP_200_OK
           THEN /\ resp' = Response("register", chk, NoToken, args, NoBody, <<>>)
                /\ UNCHANGED <<db, remote>>
           ELSE \/ (* create_vector_store returns *)
                   /\ remote' = [remote EXCEPT !.vector_stores = @ \cup {vsid},
                                               !.next_vector_store = @ + 1]
                   /\ db' = [flushed EXCEPT !.vector_stores =
                                @ \cup {[user_id |-> user.id, vector_store_id |-> vsid]}]
                   /\ resp' = Response("register", HTTP_200_OK, NoToken, args,
                                       user_to_response(user), <<"vector_stores.create">>)
                \/ (* create_vector_store raises *)
                   /\ UNCHANGED remote
                   /\ db' = SessionEnd(session_on_error, db, flushed)
                   /\ resp' = Response("register", HTTP_500_INTERNAL_SERVER_ERROR, NoToken,
                                       args, NoBody, <<"vector_stores.create">>)

(* POST /auth/token *)
login(username, password) ==
    LET args == [username |-> username, password |-> password]
        found == get_by_username(db.users, username)
    IN  /\ UNCHANGED <<now, session_on_error, request, remote>>
        /\ IF found = {} \/ \A u \in found : ~verify_password(password, u.hashed_password)
           THEN /\ resp' = Response("login", HTTP_401_UNAUTHORIZED, NoToken, args, NoBody, <<>>)
                /\ UNCHANGED db
           ELSE \E user \in found :
                LET access_token == create_access_token(user.username, now)
                    new_refresh == create_refresh_token(user.username, now)
                    flushed == [db EXCEPT !.users = update_refresh_token(@, user, new_refresh)]
                    kwargs == [access_token |-> access_token, token_type |-> "bearer"]
                IN  IF Token_validates(kwargs)
                    THEN /\ db' = flushed
                         /\ resp' = Response("login", HTTP_200_OK, NoToken, args, kwargs, <<>>)
                    ELSE /\ db' = SessionEnd(session_on_error, db, flushed)
                         /\ resp' = Response("login", HTTP_500_INTERNAL_SERVER_ERROR, NoToken,
                                             args, NoBody, <<>>)

(* the refresh handler decoding the stored refresh token without the     *)
(* expiry check                                                            *)
refresh_token_status_no_exp(access_token, users, t) ==
    IF jwt_decode_fails(access_token, ACCESS_TOKEN_SECRET_KEY, FALSE, t)
    THEN HTTP_401_UNAUTHORIZED
    ELSE IF access_token.sub = NoSub
    THEN HTTP_401_UNAUTHORIZED
    ELSE IF \A u \in get_by_username(users, access_token.sub) : u.refresh_token = NoToken
    THEN HTTP_401_UNAUTHORIZED
    ELSE IF \E u \in get_by_username(users, access_token.sub) :
               jwt_decode_fails(u.refresh_token, REFRESH_TOKEN_SECRET_KEY, FALSE, t)
    THEN HTTP_401_UNAUTHORIZED
    ELSE HTTP_500_INTERNAL_SERVER_ERROR

(* POST /auth/refresh: the status the handler answers with *)
refresh_token_status(access_token, users, t) ==
    IF ACCESS_TOKEN_SECRET_KEY = NoKey \/ REFRESH_TOKEN_SECRET_KEY = NoKey
    THEN HTTP_500_INTERNAL_SERVER_ERROR
    ELSE IF jwt_decode_fails(access_token, ACCESS_TOKEN_SECRET_KEY, FALSE, t)
    THEN HTTP_401_UNAUTHORIZED
    ELSE IF access_token.sub = NoSub
    THEN HTTP_401_UNAUTHORIZED
    ELSE IF \A u \in get_by_username(users, access_token.sub) : u.refresh_token = NoToken
    THEN HTTP_401_UNAUTHORIZED
    ELSE IF \E u \in get_by_username(users, access_token.sub) :
               jwt_decode_fails(u.refresh_token, REFRESH_TOKEN_SECRET_KEY, TRUE, t)
    THEN HTTP_401_UNAUTHORIZED
    ELSE IF Token_validates([access_token |-> create_access_token(access_token.sub, t),
                             token_type |-> "bearer"])
    THEN HTTP_200_OK
    ELSE HTTP_500_INTERNAL_SERVER_ERROR

refresh_token(access_token) ==
    LET st == refresh_token_status(access_token, db.users, now)
    IN  /\ UNCHANGED <<now, session_on_error, request, db, remote>>
        /\ resp' = Response("refresh", st, access_token, NoArgs,
                            IF st = HTTP_200_OK
                            THEN [access_token |-> create_access_token(access_token.sub, now),
                                  token_type |-> "bearer"]
                            ELSE NoBody,
                            <<>>)

(* POST /auth/verify-email *)
verify_email(email, code) ==
    LET args == [email |-> email, code |-> code]
        found == get_by_email(db.users, email)
    IN  /\ UNCHANGED <<now, session_on_error, request, remote>>
        /\ IF found = {}
           THEN /\ resp' = Response("verify_email", HTTP_404_NOT_FOUND, NoToken, args, NoBody, <<>>)
                /\ UNCHANGED db
           ELSE \E user \in found :
                /\ db' = [db EXCEPT !.users = verify_email_confirmation(@, user)]
                /\ resp' = Response("verify_email", HTTP_200_OK, NoToken, args,
                                    [email |-> user.email, email_verified |-> TRUE], <<>>)

(* POST /auth/logout *)
logout(token) ==
    LET current == get_current_user(token, db.users, now)
    IN  /\ UNCHANGED <<now, session_on_error, request, remote>>
        /\ IF current = {}
           THEN /\ resp' = Response("logout", HTTP_401_UNAUTHORIZED, token, NoArgs, NoBody, <<>>)
                /\ UNCHANGED db
           ELSE \E current_user \in current :
                /\ db' = [db EXCEPT !.users = delete_refresh_token(@, current_user.username)]
                /\ resp' = Response("logout", HTTP_200_OK, token, NoArgs,
                                    [status |-> "success"], <<>>)

(* main.py: GET /private *)
private_route(token) ==
    LET current == get_current_user(token, db.users, now)
    IN  /\ UNCHANGED <<now, session_on_error, request, db, remote>>
        /\ IF current = {}
           THEN resp' = Response("private_route", HTTP_401_UNAUTHORIZED, token, NoArgs, NoBody, <<>>)
           ELSE \E current_user \in current :
                resp' = Response("private_route", HTTP_200_OK, token, NoArgs,
                                 [user |-> current_user.username], <<>>)

Register == \E u \in Usernames, e \in Emails, p \in RegisterPasswords : register(u, e, p)
Login == \E u \in Usernames, p \in Passwords : login(u, p)
RefreshToken == \E tok \in BearerTokens(now) : refresh_token(tok)
VerifyEmail == \E e \in Emails \ {NoEmail}, code \in {"c1", "c2"} : verify_email(e, code)
Logout == \E tok \in BearerTokens(now) : logout(tok)
PrivateRoute == \E tok \in BearerTokens(now) : private_route(tok)

Next ==
    \/ Tick
    \/ Register
    \/ Login
    \/ RefreshToken
    \/ VerifyEmail
    \/ Logout
    \/ PrivateRoute

Spec == Init /\ [][Next]_vars

-----------------------------------------------------------------------------
(* Chat inputs *)

NoChatId == 0
Contents == {"hi"}
Replies == {"reply"}
(* the states create_and_poll returns a run in; the text get_gpt_response  *)
(* returns when the run left no message                                    *)
RunStatuses == {"completed", "failed"}
NoMessages == "no messages"
DefaultTitle == <<"N", "e", "w">>
RawTitles == {<<"T">>, <<" ", "T", " ">>}
Filenames == {<<"a", ".", "P", "D", "F">>, <<"a", ".", "e", "x", "e">>, <<"p", "d", "f">>, <<>>}
Limits == {1}
Offsets == {0, 1}
(* update times of the listed chats; limit and offset of a chat listing *)
Stamps == {0, 1, 2}
PageSizes == {0, 1, 2}

-----------------------------------------------------------------------------
(* gpt/gpt.py: the remote provider.  A call on a resource that does not    *)
(* exist raises; any call may raise for reasons of its own.                *)

create_thread(r) ==
    [r EXCEPT !.threads = @ \cup {r.next_thread}, !.next_thread = @ + 1]

delete_thread(r, thread_id) == [r EXCEPT !.threads = @ \ {thread_id}]

create_vector_store(r) ==
    [r EXCEPT !.vector_stores = @ \cup {r.next_vector_store}, !.next_vector_store = @ + 1]

(* client.files.create *)
files_create(r) == [r EXCEPT !.files = @ \cup {r.next_file}, !.next_file = @ + 1]

(* client.beta.vector_stores.file_batches.create_and_poll *)
file_batches_create(r, vector_store_id, file_id) ==
    [r EXCEPT !.attached = @ \cup {<<vector_store_id, file_id>>}]

unattach_file_from_vector_store(r, file_id, vector_store_id) ==
    [r EXCEPT !.attached = @ \ {<<vector_store_id, file_id>>}]

delete_file(r, file_id) == [r EXCEPT !.files = @ \ {file_id}]

-----------------------------------------------------------------------------
(* chat/tools.py *)

RECURSIVE lstrip(_)
lstrip(s) == IF s # <<>> /\ Head(s) = " " THEN lstrip(Tail(s)) ELSE s

RECURSIVE rstrip(_)
rstrip(s) ==
    IF s # <<>> /\ s[Len(s)] = " " THEN rstrip(SubSeq(s, 1, Len(s) - 1)) ELSE s

strip(s) == rstrip(lstrip(s))

TitleFailures ==
    {"none", "threads.create", "messages.create", "runs.create_and_poll",
     "messages.list", "empty", "threads.delete"}

(* get_chat_title without its try/except: a remote call that raises makes *)
(* the call raise                                                          *)
get_chat_title_no_except(r, fail, raw) ==
    LET opened == create_thread(r)
        all == <<"threads.create", "messages.create", "runs.create_and_poll",
                 "messages.list", "threads.delete">>
    IN  CASE fail = "threads.create" ->
               [title |-> DefaultTitle, remote |-> r, calls |-> SubSeq(all, 1, 1), raised |-> TRUE]
          [] fail = "messages.create" ->
               [title |-> DefaultTitle, remote |-> opened, calls |-> SubSeq(all, 1, 2), raised |-> TRUE]
          [] fail = "runs.create_and_poll" ->
               [title |-> DefaultTitle, remote |-> opened, calls |-> SubSeq(all, 1, 3), raised |-> TRUE]
          [] fail = "messages.list" ->
               [title |-> DefaultTitle, remote |-> opened, calls |-> SubSeq(all, 1, 4), raised |-> TRUE]
          [] fail = "empty" ->
               [title |-> DefaultTitle, remote |-> opened, calls |-> SubSeq(all, 1, 4), raised |-> FALSE]
          [] fail = "threads.delete" ->
               [title |-> DefaultTitle, remote |-> opened, calls |-> all, raised |-> TRUE]
          [] OTHER ->
               [title |-> strip(raw), remote |-> delete_thread(opened, r.next_thread),
                calls |-> all, raised |-> FALSE]

(* get_chat_title on remote state r: the title returned, the remote state  *)
(* left behind, the remote calls made and whether the call raised (it      *)
(* never does: every exception is caught).  `fail` names the call that     *)
(* raises ("empty": the reply list is empty), `raw` is the reply text.     *)
get_chat_title(r, fail, raw) ==
    LET opened == create_thread(r)
        all == <<"threads.create", "messages.create", "runs.create_and_poll",
                 "messages.list", "threads.delete">>
    IN  CASE fail = "threads.create" ->
               [title |-> DefaultTitle, remote |-> r, calls |-> SubSeq(all, 1, 1), raised |-> FALSE]
          [] fail = "messages.create" ->
               [title |-> DefaultTitle, remote |-> opened, calls |-> SubSeq(all, 1, 2), raised |-> FALSE]
          [] fail = "runs.create_and_poll" ->
               [title |-> DefaultTitle, remote |-> opened, calls |-> SubSeq(all, 1, 3), raised |-> FALSE]
          [] fail = "messages.list" ->
               [title |-> DefaultTitle, remote |-> opened, calls |-> SubSeq(all, 1, 4), raised |-> FALSE]
          [] fail = "empty" ->
               [title |-> DefaultTitle, remote |-> opened, calls |-> SubSeq(all, 1, 4), raised |-> FALSE]
          [] fail = "threads.delete" ->
               [title |-> DefaultTitle, remote |-> opened, calls |-> all, raised |-> FALSE]
          [] OTHER ->
               [title |-> strip(raw), remote |-> delete_thread(opened, r.next_thread),
                calls |-> all, raised |-> FALSE]

-----------------------------------------------------------------------------
(* db/models.py: Chat, Message, File, VectorStore *)

Chat_get_by_id(chats, chat_id) == {c \in chats : c.id = chat_id}

Chat_create(d, user_id, title, thread_id, t) ==
    [d EXCEPT !.chats = @ \cup {[id |-> d.next_chat_id, user_id |-> user_id, title |-> title,
                                 thread_id |-> thread_id, created_at |-> t, updated_at |-> t]},
              !.next_chat_id = @ + 1]

(* DELETE FROM chats that leaves the dependent rows behind *)
Chat_delete_no_cascade(d, chat_id) ==
    [d EXCEPT !.chats = {c \in @ : c.id # chat_id}]

(* DELETE FROM chats: the messages and files rows go with it (ON DELETE    *)
(* CASCADE)                                                                *)
Chat_delete(d, chat_id) ==
    [d EXCEPT !.chats = {c \in @ : c.id # chat_id},
              !.messages = {m \in @ : m.chat_id # chat_id},
              !.files = {f \in @ : f.chat_id # chat_id}]

Chat_update_title(d, chat_id, new_title) ==
    [d EXCEPT !.chats = {IF c.id = chat_id THEN [c EXCEPT !.title = new_title] ELSE c : c \in @}]

Chat_update_thread_id(d, chat_id, thread_id) ==
    [d EXCEPT !.chats = {IF c.id = chat_id THEN [c EXCEPT !.thread_id = thread_id] ELSE c : c \in @}]

(* Message.create without the update of the chat's updated_at *)
Message_create_no_bump(d, chat_id, content, is_sent_by_bot, t) ==
    [d EXCEPT !.messages = @ \cup {[id |-> d.next_message_id, chat_id |-> chat_id,
                                    content |-> content, created_at |-> t,
                                    is_sent_by_bot |-> is_sent_by_bot]},
              !.next_message_id = @ + 1]

Message_create(d, chat_id, content, is_sent_by_bot, t) ==
    [d EXCEPT !.messages = @ \cup {[id |-> d.next_message_id, chat_id |-> chat_id,
                                    content |-> content, created_at |-> t,
                                    is_sent_by_bot |-> is_sent_by_bot]},
              !.next_message_id = @ + 1,
              !.chats = {IF c.id = chat_id THEN [c EXCEPT !.updated_at = t] ELSE c : c \in @}]

VectorStore_get_by_user_id(d, user_id) == {v \in d.vector_stores : v.user_id = user_id}

VectorStore_create(d, user_id, vector_store_id) ==
    [d EXCEPT !.vector_stores = @ \cup {[user_id |-> user_id, vector_store_id |-> vector_store_id]}]

File_create(d, file_id, chat_id, vector_store_id, filename) ==
    [d EXCEPT !.files = @ \cup {[file_id |-> file_id, chat_id |-> chat_id,
                                 vector_store_id |-> vector_store_id, filename |-> filename]}]

File_delete(d, file_id) == [d EXCEPT !.files = {f \in @ : f.file_id # file_id}]

File_get_by_vector_store_id(d, vector_store_id) ==
    {f \in d.files : f.vector_store_id = vector_store_id}

File_get_chat_files(d, chat_id) == {f \in d.files : f.chat_id = chat_id}

-----------------------------------------------------------------------------
(* chat/router.py *)

(* the lookup without the ownership check *)
chat_access_no_owner(chats, chat_id, current_user) ==
    IF Chat_get_by_id(chats, chat_id) = {}
    THEN HTTP_404_NOT_FOUND
    ELSE HTTP_200_OK

(* the lookup and ownership check that opens send_message (with a chat     *)
(* id), get_chat_messages, delete_chat and reset_chat_context: the status  *)
(* raised, or 200                                                          *)
chat_access(chats, chat_id, current_user) ==
    IF Chat_get_by_id(chats, chat_id) = {}
    THEN HTTP_404_NOT_FOUND
    ELSE IF \E c \in Chat_get_by_id(chats, chat_id) : c.user_id # current_user.id
         THEN HTTP_403_FORBIDDEN
         ELSE HTTP_200_OK

(* POST /chat/create_chat *)
create_chat(token) ==
    LET current == get_current_user(token, db.users, now)
    IN  /\ UNCHANGED <<now, session_on_error, request>>
        /\ IF current = {}
           THEN /\ resp' = Response("create_chat", HTTP_401_UNAUTHORIZED, token, NoArgs, NoBody, <<>>)
                /\ UNCHANGED <<db, remote>>
           ELSE \E current_user \in current :
                /\ db.next_chat_id <= MaxChats
                /\ remote.next_thread <= MaxThreads
                /\ \/ (* create_thread raises *)
                      /\ resp' = Response("create_chat", HTTP_500_INTERNAL_SERVER_ERROR, token,
                                          NoArgs, NoBody, <<"threads.create">>)
                      /\ UNCHANGED <<db, remote>>
                   \/ /\ remote' = create_thread(remote)
                      /\ db' = Chat_create(db, current_user.id, DefaultTitle, remote.next_thread, now)
                      /\ resp' = Response("create_chat", HTTP_200_OK, token, NoArgs,
                                          [chat_id |-> db.next_chat_id], <<"threads.create">>)

(* send_message answered without a call of get_chat_title *)
NoTitleCall == [fail |-> "not called", title |-> <<>>]

(* send_message from line 75 on: `chat` is the chat written to, `durable`  *)
(* the committed database, r the remote state and `calls` the remote calls *)
(* made up to that point.  The response of an exchange that called        *)
(* get_chat_title carries, beside the fields of Response, the outcome of   *)
(* that call in `generate_title`; every answered exchange carries the     *)
(* state its run ended in, in `run`.                                       *)
send_message_exchange(token, args, chat, is_new_chat, durable, r, calls) ==
    LET stored == Message_create(durable, chat.id, args.content, FALSE, now)
        all == calls \o <<"messages.create", "runs.create_and_poll", "messages.list">>
        failed(n) ==
            /\ db' = SessionEnd(session_on_error, durable, stored)
            /\ remote' = r
            /\ resp' = Response("send_message", HTTP_500_INTERNAL_SERVER_ERROR, token, args,
                                NoBody, SubSeq(all, 1, Len(calls) + n))
        answered(run, reply, titled, r2, calls2, title_call) ==
            /\ db' = Message_create(titled, chat.id, reply, TRUE, now)
            /\ remote' = r2
            /\ resp' = LET answer == Response("send_message", HTTP_200_OK, token, args,
                                          [chat_id |-> chat.id, response |-> reply], calls2)
                                          @@ [run |-> run]
                       IN  IF title_call = NoTitleCall THEN answer
                           ELSE answer @@ [generate_title |-> title_call]
        title_raised(named) ==
            /\ db' = SessionEnd(session_on_error, durable, stored)
            /\ remote' = named.remote
            /\ resp' = Response("send_message", HTTP_500_INTERNAL_SERVER_ERROR, token, args,
                                NoBody, all \o named.calls)
    IN  /\ durable.next_message_id + 1 <= MaxMessages
        /\ IF chat.thread_id \notin r.threads
           THEN failed(1)
           ELSE \/ \E n \in 1 .. 3 : failed(n)
                \/ \E run \in RunStatuses :
                   \E reply \in (IF run = "completed" THEN Replies ELSE {NoMessages}) :
                      IF is_new_chat
                      THEN \E title_fail \in TitleFailures, raw_title \in RawTitles :
                              LET named == get_chat_title(r, title_fail, raw_title)
                              IN  IF named.raised
                                  THEN title_raised(named)
                                  ELSE answered(run, reply,
                                           Chat_update_title(stored, chat.id, named.title),
                                           named.remote, all \o named.calls,
                                           [fail |-> title_fail, title |-> named.title])
                      ELSE answered(run, reply, stored, r, all, NoTitleCall)

(* POST /chat/send_message *)
send_message(token, chat_id, content) ==
    LET current == get_current_user(token, db.users, now)
        args == [chat_id |-> chat_id, content |-> content]
    IN  /\ UNCHANGED <<now, session_on_error, request>>
        /\ IF current = {}
           THEN /\ resp' = Response("send_message", HTTP_401_UNAUTHORIZED, token, args, NoBody, <<>>)
                /\ UNCHANGED <<db, remote>>
           ELSE \E current_user \in current :
                IF chat_id = NoChatId
                THEN /\ db.next_chat_id <= MaxChats
                     /\ remote.next_thread + 1 <= MaxThreads
                     /\ \/ (* create_thread raises *)
                           /\ resp' = Response("send_message", HTTP_500_INTERNAL_SERVER_ERROR,
                                               token, args, NoBody, <<"threads.create">>)
                           /\ UNCHANGED <<db, remote>>
                        \/ LET created == Chat_create(db, current_user.id, DefaultTitle,
                                                      remote.next_thread, now)
                           IN  \E chat \in Chat_get_by_id(created.chats, db.next_chat_id) :
                                   send_message_exchange(token, args, chat, TRUE, created,
                                       create_thread(remote), <<"threads.create">>)
                ELSE LET st == chat_access(db.chats, chat_id, current_user)
                     IN  IF st # HTTP_200_OK
                         THEN /\ resp' = Response("send_message", st, token, args, NoBody, <<>>)
                              /\ UNCHANGED <<db, remote>>
                         ELSE \E chat \in Chat_get_by_id(db.chats, chat_id) :
                                  send_message_exchange(token, args, chat, FALSE, db, remote, <<>>)

(* the orderings ORDER BY created_at DESC may return the rows of S in *)
OrderByCreatedDesc(S) ==
    {q \in [1 .. Cardinality(S) -> S] :
        /\ \A i, j \in DOMAIN q : i # j => q[i] # q[j]
        /\ \A i, j \in DOMAIN q : i < j => q[i].created_at >= q[j].created_at}

Min(a, b) == IF a < b THEN a ELSE b

(* LIMIT limit OFFSET offset *)
LimitOffset(q, limit, offset) == SubSeq(q, offset + 1, Min(offset + limit, Len(q)))

(* GET /chat/{chat_id}/messages *)
get_chat_messages(token, chat_id, limit, offset) ==
    LET current == get_current_user(token, db.users, now)
        args == [chat_id |-> chat_id, limit |-> limit, offset |-> offset]
        rows == {m \in db.messages : m.chat_id = chat_id}
    IN  /\ UNCHANGED <<now, session_on_error, request, db, remote>>
        /\ IF current = {}
           THEN resp' = Response("get_chat_messages", HTTP_401_UNAUTHORIZED, token, args, NoBody, <<>>)
           ELSE \E current_user \in current :
                LET st == chat_access(db.chats, chat_id, current_user)
                IN  IF st # HTTP_200_OK
                    THEN resp' = Response("get_chat_messages", st, token, args, NoBody, <<>>)
                    ELSE \E q \in OrderByCreatedDesc(rows) :
                         resp' = Response("get_chat_messages", HTTP_200_OK, token, args,
                                     [items |-> LimitOffset(q, limit, offset),
                                      total |-> Cardinality(rows),
                                      limit |-> limit, offset |-> offset], <<>>)

(* the orderings ORDER BY updated_at DESC may return the rows of S in *)
OrderByUpdatedDesc(S) ==
    {q \in [1 .. Cardinality(S) -> S] :
        /\ \A i, j \in DOMAIN q : i # j => q[i] # q[j]
        /\ \A i, j \in DOMAIN q : i < j => q[i].updated_at >= q[j].updated_at}

(* Chat.get_chats_paginated counting and selecting every chat of the table *)
Chat_get_chats_rows_all(chats, user_id) == chats

(* Chat.get_chats_paginated: the rows WHERE user_id = :user_id *)
Chat_get_chats_rows(chats, user_id) == {c \in chats : c.user_id = user_id}

(* convert_to_paginated_chats: one ChatBrief per row *)
ChatBrief(chat) == [id |-> chat.id, title |-> chat.title, updated_at |-> chat.updated_at]

(* GET /chat/list *)
get_chats(token, limit, offset) ==
    LET current == get_current_user(token, db.users, now)
        args == [limit |-> limit, offset |-> offset]
    IN  /\ UNCHANGED <<now, session_on_error, request, db, remote>>
        /\ IF current = {}
           THEN resp' = Response("get_chats", HTTP_401_UNAUTHORIZED, token, args, NoBody, <<>>)
           ELSE \E current_user \in current :
                LET rows == Chat_get_chats_rows(db.chats, current_user.id)
                IN  \E q \in OrderByUpdatedDesc(rows) :
                    LET page == LimitOffset(q, limit, offset)
                    IN  resp' = Response("get_chats", HTTP_200_OK, token, args,
                                    [items |-> [i \in DOMAIN page |-> ChatBrief(page[i])],
                                     total |-> Cardinality(rows),
                                     limit |-> limit, offset |-> offset], <<>>)

RECURSIVE Repeat(_, _)
Repeat(s, n) == IF n = 0 THEN <<>> ELSE s \o Repeat(s, n - 1)

RECURSIVE File_delete_all(_, _)
File_delete_all(d, fs) ==
    IF fs = {} THEN d
    ELSE LET f == CHOOSE x \in fs : TRUE IN File_delete_all(File_delete(d, f.file_id), fs \ {f})

RECURSIVE remote_delete_all(_, _)
remote_delete_all(r, fs) ==
    IF fs = {} THEN r
    ELSE LET f == CHOOSE x \in fs : TRUE
         IN  remote_delete_all(
                 delete_file(unattach_file_from_vector_store(r, f.file_id, f.vector_store_id),
                             f.file_id),
                 fs \ {f})

(* the remote provider can detach and delete the file of row f *)
Deletable(r, f) == <<f.vector_store_id, f.file_id>> \in r.attached /\ f.file_id \in r.files

NoThread == 0

(* delete_chat's cleanup loop over `files` raising: `done` are the rows     *)
(* handled before a remote call raised on row f                            *)
delete_chat_files(token, args, files, done, f) ==
    LET per_file == <<"vector_stores.files.delete", "files.delete">>
        before == Repeat(per_file, Cardinality(done))
        cleaned == remote_delete_all(remote, done)
        flushed == File_delete_all(db, done)
    IN  /\ db' = SessionEnd(session_on_error, db, flushed)
        /\ \/ (* vector_stores.files.delete raises *)
              /\ remote' = cleaned
              /\ resp' = Response("delete_chat", HTTP_500_INTERNAL_SERVER_ERROR, token, args,
                                  NoBody, before \o SubSeq(per_file, 1, 1))
           \/ (* files.delete raises *)
              /\ <<f.vector_store_id, f.file_id>> \in remote.attached
              /\ remote' = unattach_file_from_vector_store(cleaned, f.file_id, f.vector_store_id)
              /\ resp' = Response("delete_chat", HTTP_500_INTERNAL_SERVER_ERROR, token, args,
                                  NoBody, before \o per_file)

(* delete_chat from line 171 on, every file of the user's vector store     *)
(* having been deleted                                                     *)
delete_chat_thread(token, args, chat, files) ==
    LET calls == Repeat(<<"vector_stores.files.delete", "files.delete">>, Cardinality(files))
        cleaned == remote_delete_all(remote, files)
        flushed == File_delete_all(db, files)
        raises ==
            /\ db' = SessionEnd(session_on_error, db, flushed)
            /\ remote' = cleaned
            /\ resp' = Response("delete_chat", HTTP_500_INTERNAL_SERVER_ERROR, token, args,
                                NoBody, calls \o <<"threads.delete">>)
        returns ==
            /\ db' = Chat_delete(flushed, chat.id)
            /\ remote' = IF chat.thread_id # NoThread
                         THEN delete_thread(cleaned, chat.thread_id) ELSE cleaned
            /\ resp' = Response("delete_chat", HTTP_200_OK, token, args, [status |-> "success"],
                                IF chat.thread_id # NoThread
                                THEN calls \o <<"threads.delete">> ELSE calls)
    IN  IF chat.thread_id = NoThread
        THEN returns
        ELSE IF chat.thread_id \notin remote.threads
        THEN raises
        ELSE raises \/ returns

(* DELETE /chat/{chat_id} *)
delete_chat(token, chat_id) ==
    LET current == get_current_user(token, db.users, now)
        args == [chat_id |-> chat_id]
    IN  /\ UNCHANGED <<now, session_on_error, request>>
        /\ IF current = {}
           THEN /\ resp' = Response("delete_chat", HTTP_401_UNAUTHORIZED, token, args, NoBody, <<>>)
                /\ UNCHANGED <<db, remote>>
           ELSE \E current_user \in current :
                LET st == chat_access(db.chats, chat_id, current_user)
                    files == UNION {File_get_by_vector_store_id(db, v.vector_store_id) :
                                       v \in VectorStore_get_by_user_id(db, current_user.id)}
                IN  IF st # HTTP_200_OK
                    THEN /\ resp' = Response("delete_chat", st, token, args, NoBody, <<>>)
                         /\ UNCHANGED <<db, remote>>
                    ELSE \/ \E done \in SUBSET files : \E f \in files \ done :
                               /\ \A g \in done : Deletable(remote, g)
                               /\ delete_chat_files(token, args, files, done, f)
                         \/ /\ \A g \in files : Deletable(remote, g)
                            /\ \E chat \in Chat_get_by_id(db.chats, chat_id) :
                                  delete_chat_thread(token, args, chat, files)

(* POST /chat/{chat_id}/reset *)
reset_chat_context(token, chat_id) ==
    LET current == get_current_user(token, db.users, now)
        args == [chat_id |-> chat_id]
    IN  /\ UNCHANGED <<now, session_on_error, request>>
        /\ IF current = {}
           THEN /\ resp' = Response("reset_chat_context", HTTP_401_UNAUTHORIZED, token, args, NoBody, <<>>)
                /\ UNCHANGED <<db, remote>>
           ELSE \E current_user \in current :
                LET st == chat_access(db.chats, chat_id, current_user)
                IN  IF st # HTTP_200_OK
                    THEN /\ resp' = Response("reset_chat_context", st, token, args, NoBody, <<>>)
                         /\ UNCHANGED <<db, remote>>
                    ELSE \E chat \in Chat_get_by_id(db.chats, chat_id) :
                         LET has == chat.thread_id # NoThread
                             dropped == IF has THEN delete_thread(remote, chat.thread_id) ELSE remote
                             first == IF has THEN <<"threads.delete">> ELSE <<>>
                             delete_raises ==
                                 /\ has
                                 /\ resp' = Response("reset_chat_context",
                                                HTTP_500_INTERNAL_SERVER_ERROR, token, args,
                                                NoBody, first)
                                 /\ UNCHANGED <<db, remote>>
                             create_raises ==
                                 /\ resp' = Response("reset_chat_context",
                                                HTTP_500_INTERNAL_SERVER_ERROR, token, args,
                                                NoBody, first \o <<"threads.create">>)
                                 /\ remote' = dropped
                                 /\ UNCHANGED db
                             returns ==
                                 /\ remote' = create_thread(dropped)
                                 /\ db' = Chat_update_thread_id(db, chat_id, remote.next_thread)
                                 /\ resp' = Response("reset_chat_context", HTTP_200_OK, token,
                                                args, [status |-> "success"],
                                                first \o <<"threads.create">>)
                         IN  /\ remote.next_thread <= MaxThreads
                             /\ IF has /\ chat.thread_id \notin remote.threads
                                THEN delete_raises
                                ELSE delete_raises \/ create_raises \/ returns

lower(c) == CASE c = "P" -> "p" [] c = "D" -> "d" [] c = "F" -> "f" [] OTHER -> c

endswith(s, suffix) ==
    Len(s) >= Len(suffix) /\ SubSeq(s, Len(s) - Len(suffix) + 1, Len(s)) = suffix

AllowedExtensions ==
    {<<".", "p", "d", "f">>, <<".", "d", "o", "c", "x">>, <<".", "t", "x", "t">>}

(* the file-name test of upload_file: TRUE when the upload is refused *)
filename_refused(filename) ==
    \/ filename = <<>>
    \/ ~\E ext \in AllowedExtensions : endswith([i \in DOMAIN filename |-> lower(filename[i])], ext)

(* upload_file's `except Exception` clause: the status answered for an     *)
(* exception raised in the body, an HTTPException of status `raised`       *)
(* included                                                                *)
upload_file_except(raised) == HTTP_500_INTERNAL_SERVER_ERROR

(* POST /chat/{chat_id}/upload_file *)
upload_file(token, chat_id, filename) ==
    LET current == get_current_user(token, db.users, now)
        args == [chat_id |-> chat_id, filename |-> filename]
    IN  /\ UNCHANGED <<now, session_on_error, request>>
        /\ IF current = {}
           THEN /\ resp' = Response("upload_file", HTTP_401_UNAUTHORIZED, token, args, NoBody, <<>>)
                /\ UNCHANGED <<db, remote>>
           ELSE \E current_user \in current :
                LET found == VectorStore_get_by_user_id(db, current_user.id)
                    r1 == IF found = {} THEN create_vector_store(remote) ELSE remote
                    d1 == IF found = {}
                          THEN VectorStore_create(db, current_user.id, remote.next_vector_store)
                          ELSE db
                    c1 == IF found = {} THEN <<"vector_stores.create">> ELSE <<>>
                    r2 == files_create(r1)
                    file_id == r1.next_file
                    calls == c1 \o <<"files.create", "file_batches.create_and_poll">>
                    error(status, made) ==
                        Response("upload_file", upload_file_except(status), token, args, NoBody, made)
                IN  IF filename_refused(filename)
                    THEN /\ resp' = error(HTTP_400_BAD_REQUEST, <<>>)
                         /\ UNCHANGED <<db, remote>>
                    ELSE /\ remote.next_file <= MaxFiles
                         /\ \/ \E vector_store \in VectorStore_get_by_user_id(d1, current_user.id) :
                               /\ remote' = file_batches_create(r2, vector_store.vector_store_id, file_id)
                               /\ IF Chat_get_by_id(db.chats, chat_id) = {}
                                  THEN (* the insert violates the foreign key of files.chat_id *)
                                       /\ resp' = error(HTTP_500_INTERNAL_SERVER_ERROR, calls)
                                       /\ UNCHANGED db
                                  ELSE /\ db' = File_create(d1, file_id, chat_id,
                                                       vector_store.vector_store_id, filename)
                                       /\ resp' = Response("upload_file", HTTP_200_OK, token, args,
                                                      [status |-> "success", file_id |-> file_id],
                                                      calls)
                            \/ (* create_vector_store raises *)
                               /\ found = {}
                               /\ resp' = error(HTTP_500_INTERNAL_SERVER_ERROR, c1)
                               /\ UNCHANGED <<db, remote>>
                            \/ (* files.create raises *)
                               /\ resp' = error(HTTP_500_INTERNAL_SERVER_ERROR, SubSeq(calls, 1, Len(c1) + 1))
                               /\ remote' = r1
                               /\ db' = SessionEnd(session_on_error, db, d1)
                            \/ (* file_batches.create_and_poll raises *)
                               /\ resp' = error(HTTP_500_INTERNAL_SERVER_ERROR, calls)
                               /\ remote' = r2
                               /\ db' = SessionEnd(session_on_error, db, d1)

(* the file listing without the authentication dependency *)
get_chat_files_no_auth(token, chat_id) ==
    /\ UNCHANGED <<now, session_on_error, request, db, remote>>
    /\ resp' = Response("get_chat_files", HTTP_200_OK, token, [chat_id |-> chat_id],
                        [filenames |-> {f.filename : f \in File_get_chat_files(db, chat_id)}],
                        <<>>)

(* GET /chat/{chat_id}/files *)
get_chat_files(token, chat_id) ==
    LET current == get_current_user(token, db.users, now)
        args == [chat_id |-> chat_id]
    IN  /\ UNCHANGED <<now, session_on_error, request, db, remote>>
        /\ IF current = {}
           THEN resp' = Response("get_chat_files", HTTP_401_UNAUTHORIZED, token, args, NoBody, <<>>)
           ELSE resp' = Response("get_chat_files", HTTP_200_OK, token, args,
                            [filenames |-> {f.filename : f \in File_get_chat_files(db, chat_id)}],
                            <<>>)

-----------------------------------------------------------------------------
(* The chat routes, served to two registered users *)

ChatIds == 1 .. MaxChats

(* Bearer tokens of the chat requests at time t: a fresh access token of   *)
(* each user and a forged one                                              *)
ChatTokens(t) ==
    {create_access_token(s, t) : s \in Usernames}
    \cup {[sub |-> "alice", exp |-> t + ACCESS_TOKEN_EXPIRE_MINUTES, key |-> ForgedKey]}

RegisteredUser(id, username) ==
    [id |-> id, username |-> username, email |-> NoEmail, email_verified |-> FALSE,
     refresh_token |-> NoToken, hashed_password |-> get_password_hash("p1")]

(* the state after alice and bob have registered *)
ChatInit ==
    /\ session_on_error \in SessionOnError
    /\ request = NoRequest
    /\ now = 0
    /\ db = [EmptyDb EXCEPT !.users = {RegisteredUser(1, "alice"), RegisteredUser(2, "bob")},
                            !.next_user_id = 3,
                            !.vector_stores = {[user_id |-> 1, vector_store_id |-> 1],
                                               [user_id |-> 2, vector_store_id |-> 2]}]
    /\ remote = [EmptyRemote EXCEPT !.vector_stores = {1, 2}, !.next_vector_store = 3]
    /\ resp = Response("none", HTTP_200_OK, NoToken, NoArgs, NoBody, <<>>)

CreateChat == \E tok \in ChatTokens(now) : create_chat(tok)

SendMessage ==
    \E tok \in ChatTokens(now), chat_id \in ChatIds \cup {NoChatId}, content \in Contents :
        send_message(tok, chat_id, content)

GetChatMessages ==
    \E tok \in ChatTokens(now), chat_id \in ChatIds, limit \in Limits, offset \in Offsets :
        get_chat_messages(tok, chat_id, limit, offset)

DeleteChat == \E tok \in ChatTokens(now), chat_id \in ChatIds : delete_chat(tok, chat_id)

ResetChatContext ==
    \E tok \in ChatTokens(now), chat_id \in ChatIds : reset_chat_context(tok, chat_id)

UploadFile ==
    \E tok \in ChatTokens(now), chat_id \in ChatIds, filename \in Filenames :
        upload_file(tok, chat_id, filename)

GetChatFiles ==
    \E tok \in ChatTokens(now), chat_id \in ChatIds : get_chat_files(tok, chat_id)

ChatNext ==
    \/ CreateChat
    \/ SendMessage
    \/ GetChatMessages
    \/ DeleteChat
    \/ ResetChatContext

(* the conversation routes *)
ChatSpec == ChatInit /\ [][ChatNext]_vars

FileNext ==
    \/ CreateChat
    \/ UploadFile
    \/ GetChatFiles
    \/ DeleteChat

(* the attachment routes *)
FileSpec == ChatInit /\ [][FileNext]_vars

(* the clock advancing between two chat requests *)
ChatTick ==
    /\ now < MaxChatTime
    /\ now' = now + 1
    /\ resp' = Response("none", HTTP_200_OK, NoToken, NoArgs, NoBody, <<>>)
    /\ UNCHANGED <<db, remote, session_on_error, request>>

TimedNext ==
    \/ ChatTick
    \/ CreateChat
    \/ SendMessage
    \/ DeleteChat
    \/ ResetChatContext

(* the conversation routes served while the clock advances *)
TimedSpec == ChatInit /\ [][TimedNext]_vars

StoreNext ==
    \/ Register
    \/ CreateChat
    \/ UploadFile

(* registration and the attachment upload, the two places where a vector   *)
(* store is created                                                        *)
StoreSpec == Init /\ [][StoreNext]_vars

(* Bearer tokens that get_current_user refuses at time t: none at all, one  *)
(* signed with another key, an expired one, one without subject and one    *)
(* whose subject is no user                                                *)
RejectedTokens(t) ==
    {NoToken,
     [sub |-> "alice", exp |-> t + ACCESS_TOKEN_EXPIRE_MINUTES, key |-> ForgedKey],
     create_access_token("alice", t - ACCESS_TOKEN_EXPIRE_MINUTES - 1),
     create_access_token(NoSub, t),
     create_access_token("carol", t)}

(* a request to a guarded route with a token that is refused *)
Unauthenticated ==
    \E tok \in RejectedTokens(now) :
        \/ logout(tok)
        \/ create_chat(tok)
        \/ \E chat_id \in ChatIds \cup {NoChatId}, content \in Contents :
              send_message(tok, chat_id, content)
        \/ \E limit \in Limits, offset \in Offsets : get_chats(tok, limit, offset)
        \/ \E chat_id \in ChatIds, limit \in Limits, offset \in Offsets :
              get_chat_messages(tok, chat_id, limit, offset)
        \/ \E chat_id \in ChatIds : delete_chat(tok, chat_id)
        \/ \E chat_id \in ChatIds : reset_chat_context(tok, chat_id)
        \/ \E chat_id \in ChatIds, filename \in Filenames : upload_file(tok, chat_id, filename)
        \/ \E chat_id \in ChatIds : get_chat_files(tok, chat_id)

GuardNext ==
    \/ CreateChat
    \/ UploadFile
    \/ Unauthenticated

(* the guarded routes, asked with tokens that are refused, while chats and *)
(* files come into being                                                   *)
GuardSpec == ChatInit /\ [][GuardNext]_vars

-----------------------------------------------------------------------------
(* send_message step by step: the handler waits in                         *)
(* runs.create_and_poll, first for the run of the reply (gpt/gpt.py 28)    *)
(* and, for a new chat, for the run of the title (chat/tools.py 31).       *)
(* `request` holds the handler's position and locals while it waits:       *)
(* `session` is the database as its session sees it, `run` the state of    *)
(* the run waited for, `answer_run` the state the reply's run ended in.    *)

InProgress == "in_progress"

(* create_and_poll returning whatever the state of the run *)
run_ended_any(run) == TRUE

(* create_and_poll returns once the run has left the states it polls in *)
run_ended(run) == run \in RunStatuses

(* send_message up to the wait at chat/router.py 85 *)
send_message_begin(token, chat_id, content) ==
    LET current == get_current_user(token, db.users, now)
        args == [chat_id |-> chat_id, content |-> content]
        refused(st, calls) ==
            /\ resp' = Response("send_message", st, token, args, NoBody, calls)
            /\ UNCHANGED <<db, remote, request>>
        post(chat, is_new_chat, durable, r, calls) ==
            LET stored == Message_create(durable, chat.id, content, FALSE, now)
                posted == calls \o <<"messages.create", "runs.create_and_poll">>
                raises(n) ==
                    /\ db' = SessionEnd(session_on_error, durable, stored)
                    /\ remote' = r
                    /\ resp' = Response("send_message", HTTP_500_INTERNAL_SERVER_ERROR, token,
                                        args, NoBody, SubSeq(posted, 1, Len(calls) + n))
                    /\ UNCHANGED request
                waits ==
                    /\ db' = durable
                    /\ remote' = r
                    /\ request' = [pc |-> "polling", token |-> token, args |-> args,
                                   chat_id |-> chat.id, is_new_chat |-> is_new_chat,
                                   session |-> stored, calls |-> posted, run |-> InProgress,
                                   answer_run |-> InProgress, reply |-> NoMessages,
                                   title_thread |-> NoThread]
                    /\ UNCHANGED resp
            IN  /\ durable.next_message_id + 1 <= MaxMessages
                /\ IF chat.thread_id \notin r.threads
                   THEN raises(1)
                   ELSE (\E n \in 1 .. 2 : raises(n)) \/ waits
    IN  /\ request = NoRequest
        /\ UNCHANGED <<now, session_on_error>>
        /\ IF current = {}
           THEN refused(HTTP_401_UNAUTHORIZED, <<>>)
           ELSE \E current_user \in current :
                IF chat_id = NoChatId
                THEN /\ db.next_chat_id <= MaxChats
                     /\ remote.next_thread + 1 <= MaxThreads
                     /\ \/ refused(HTTP_500_INTERNAL_SERVER_ERROR, <<"threads.create">>)
                        \/ LET created == Chat_create(db, current_user.id, DefaultTitle,
                                                      remote.next_thread, now)
                           IN  \E chat \in Chat_get_by_id(created.chats, db.next_chat_id) :
                                   post(chat, TRUE, created, create_thread(remote),
                                        <<"threads.create">>)
                ELSE LET st == chat_access(db.chats, chat_id, current_user)
                     IN  IF st # HTTP_200_OK
                         THEN refused(st, <<>>)
                         ELSE \E chat \in Chat_get_by_id(db.chats, chat_id) :
                                  post(chat, FALSE, db, remote, <<>>)

(* the waiting send_message answers: chat/router.py 93-104 *)
send_message_answer(session, r, calls, title_call) ==
    /\ db' = Message_create(session, request.chat_id, request.reply, TRUE, now)
    /\ remote' = r
    /\ resp' = LET answer == Response("send_message", HTTP_200_OK, request.token, request.args,
                                  [chat_id |-> request.chat_id, response |-> request.reply],
                                  calls)
                                  @@ [run |-> request.answer_run]
               IN  IF title_call = NoTitleCall THEN answer
                   ELSE answer @@ [generate_title |-> title_call]
    /\ request' = NoRequest

(* send_message from the return of create_and_poll (chat/router.py 85) to  *)
(* the wait of get_chat_title (chat/tools.py 31) or to the answer          *)
SendMessageReply ==
    LET listed == request.calls \o <<"messages.list">>
    IN  /\ request.pc = "polling"
        /\ run_ended(request.run)
        /\ UNCHANGED <<now, session_on_error>>
        /\ \/ (* messages.list raises *)
              /\ db' = SessionEnd(session_on_error, db, request.session)
              /\ resp' = Response("send_message", HTTP_500_INTERNAL_SERVER_ERROR, request.token,
                                  request.args, NoBody, listed)
              /\ request' = NoRequest
              /\ UNCHANGED remote
           \/ \E reply \in (IF request.run = "completed" THEN Replies ELSE {NoMessages}) :
                 IF ~request.is_new_chat
                 THEN /\ db' = Message_create(request.session, request.chat_id, reply, TRUE, now)
                      /\ resp' = Response("send_message", HTTP_200_OK, request.token,
                                          request.args,
                                          [chat_id |-> request.chat_id, response |-> reply],
                                          listed)
                                 @@ [run |-> request.run]
                      /\ request' = NoRequest
                      /\ UNCHANGED remote
                 ELSE \E title_fail \in {"threads.create", "messages.create", "none"} :
                      LET named == get_chat_title(remote, title_fail, DefaultTitle)
                      IN  IF title_fail # "none"
                          THEN (* the title's thread or prompt fails: fallback title *)
                               /\ db' = Message_create(
                                           Chat_update_title(request.session, request.chat_id,
                                                             named.title),
                                           request.chat_id, reply, TRUE, now)
                               /\ remote' = named.remote
                               /\ resp' = Response("send_message", HTTP_200_OK, request.token,
                                              request.args,
                                              [chat_id |-> request.chat_id, response |-> reply],
                                              listed \o named.calls)
                                          @@ [run |-> request.run]
                                          @@ [generate_title |->
                                                 [fail |-> title_fail, title |-> named.title]]
                               /\ request' = NoRequest
                          ELSE (* the title's run is created: wait for it *)
                               /\ remote' = create_thread(remote)
                               /\ request' = [request EXCEPT
                                     !.pc = "title_polling", !.reply = reply,
                                     !.answer_run = request.run, !.run = InProgress,
                                     !.title_thread = remote.next_thread,
                                     !.calls = listed \o <<"threads.create", "messages.create",
                                                           "runs.create_and_poll">>]
                               /\ UNCHANGED <<db, resp>>

(* get_chat_title from the return of create_and_poll (chat/tools.py 31) on *)
(* and the rest of send_message (chat/router.py 91-104)                    *)
SendMessageTitle ==
    /\ request.pc = "title_polling"
    /\ run_ended(request.run)
    /\ UNCHANGED <<now, session_on_error>>
    /\ \E title_fail \in {"messages.list", "empty", "threads.delete", "none"},
          raw_title \in RawTitles :
          LET title == IF title_fail = "none" THEN strip(raw_title) ELSE DefaultTitle
              calls == request.calls \o
                       (IF title_fail \in {"messages.list", "empty"}
                        THEN <<"messages.list">> ELSE <<"messages.list", "threads.delete">>)
          IN  send_message_answer(
                  Chat_update_title(request.session, request.chat_id, title),
                  IF title_fail = "none" THEN delete_thread(remote, request.title_thread)
                                         ELSE remote,
                  calls, [fail |-> title_fail, title |-> title])

(* create_and_poll raises while the handler waits: the reply's propagates  *)
(* (gpt/gpt.py 28, chat/router.py 85), the title's is caught               *)
(* (chat/tools.py 55-57)                                                   *)
PollRaises ==
    /\ request.pc \in {"polling", "title_polling"}
    /\ UNCHANGED <<now, session_on_error>>
    /\ IF request.pc = "polling"
       THEN /\ db' = SessionEnd(session_on_error, db, request.session)
            /\ resp' = Response("send_message", HTTP_500_INTERNAL_SERVER_ERROR, request.token,
                                request.args, NoBody, request.calls)
            /\ request' = NoRequest
            /\ UNCHANGED remote
       ELSE send_message_answer(
                Chat_update_title(request.session, request.chat_id, DefaultTitle),
                remote, request.calls,
                [fail |-> "runs.create_and_poll", title |-> DefaultTitle])

(* the remote provider ends the run the handler waits for *)
RunEnds ==
    /\ request.pc \in {"polling", "title_polling"}
    /\ request.run = InProgress
    /\ \E run \in RunStatuses : request' = [request EXCEPT !.run = run]
    /\ UNCHANGED <<now, db, remote, resp, session_on_error>>

SendMessageBegin ==
    \E tok \in ChatTokens(now), chat_id \in ChatIds \cup {NoChatId}, content \in Contents :
        send_message_begin(tok, chat_id, content)

PollNext ==
    \/ SendMessageBegin
    \/ RunEnds
    \/ PollRaises
    \/ SendMessageReply
    \/ SendMessageTitle

(* send_message requests served one at a time; the provider ends every run *)
(* and the handler is scheduled whenever it can go on                      *)
PollSpec ==
    /\ ChatInit
    /\ [][PollNext]_vars
    /\ WF_vars(RunEnds)
    /\ WF_vars(SendMessageReply)
    /\ WF_vars(SendMessageTitle)

(* the tables a chat is deleted from: chats 1 and 2 with their threads,    *)
(* message row i in chat msg_chat[i], file row i in chat file_chat[i] and  *)
(* in the vector store of user file_user[i], every file attached remotely  *)
DeleteInit ==
    /\ session_on_error \in SessionOnError
    /\ request = NoRequest
    /\ now = 0
    /\ \E owner \in [1 .. 2 -> {1, 2}],
          msg_chat \in [1 .. MaxDeleteRows -> 1 .. 2],
          file_chat \in [1 .. MaxDeleteRows -> 1 .. 2],
          file_user \in [1 .. MaxDeleteRows -> {1, 2}] :
          /\ db = [users |-> {RegisteredUser(1, "alice"), RegisteredUser(2, "bob")},
                   next_user_id |-> 3,
                   vector_stores |-> {[user_id |-> 1, vector_store_id |-> 1],
                                      [user_id |-> 2, vector_store_id |-> 2]},
                   chats |-> {[id |-> i, user_id |-> owner[i], title |-> DefaultTitle,
                               thread_id |-> i, created_at |-> 0, updated_at |-> 0] :
                                  i \in 1 .. 2},
                   next_chat_id |-> 3,
                   messages |-> {[id |-> i, chat_id |-> msg_chat[i], content |-> "hi",
                                  created_at |-> 0, is_sent_by_bot |-> FALSE] :
                                     i \in 1 .. MaxDeleteRows},
                   next_message_id |-> MaxDeleteRows + 1,
                   files |-> {[file_id |-> i, chat_id |-> file_chat[i],
                               vector_store_id |-> file_user[i],
                               filename |-> <<"a", ".", "P", "D", "F">>] :
                                  i \in 1 .. MaxDeleteRows}]
          /\ remote = [vector_stores |-> {1, 2}, next_vector_store |-> 3,
                       threads |-> {1, 2}, next_thread |-> 3,
                       files |-> 1 .. MaxDeleteRows, next_file |-> MaxDeleteRows + 1,
                       attached |-> {<<file_user[i], i>> : i \in 1 .. MaxDeleteRows}]
    /\ resp = Response("none", HTTP_200_OK, NoToken, NoArgs, NoBody, <<>>)

DeleteNext == DeleteChat

(* chat deletion *)
DeleteSpec == DeleteInit /\ [][DeleteNext]_vars

(* a chats table of n rows: row i belongs to owner[i] and was last updated  *)
(* at stamp[i]                                                             *)
ListedChats(n, owner, stamp) ==
    {[id |-> i, user_id |-> owner[i], title |-> DefaultTitle, thread_id |-> i,
      created_at |-> 0, updated_at |-> stamp[i]] : i \in 1 .. n}

(* the chat listing served over every chats table of at most MaxListChats  *)
(* rows of the two registered users                                        *)
ListInit ==
    /\ session_on_error \in SessionOnError
    /\ request = NoRequest
    /\ now \in Stamps /\ \A t \in Stamps : t <= now
    /\ \E n \in 0 .. MaxListChats :
          \E owner \in [1 .. n -> {1, 2}], stamp \in [1 .. n -> Stamps] :
             /\ db = [EmptyDb EXCEPT
                         !.users = {RegisteredUser(1, "alice"), RegisteredUser(2, "bob")},
                         !.next_user_id = 3,
                         !.vector_stores = {[user_id |-> 1, vector_store_id |-> 1],
                                            [user_id |-> 2, vector_store_id |-> 2]},
                         !.chats = ListedChats(n, owner, stamp),
                         !.next_chat_id = n + 1]
             /\ remote = [EmptyRemote EXCEPT !.vector_stores = {1, 2}, !.next_vector_store = 3,
                                             !.threads = 1 .. n, !.next_thread = n + 1]
    /\ resp = Response("none", HTTP_200_OK, NoToken, NoArgs, NoBody, <<>>)

GetChats ==
    \E tok \in ChatTokens(now), limit \in PageSizes, offset \in PageSizes :
        get_chats(tok, limit, offset)

ListNext == GetChats

(* the chat listing *)
ListSpec == ListInit /\ [][ListNext]_vars

-----------------------------------------------------------------------------
(* Properties of the /auth routes, checked under Spec *)

(* the stored refresh token of a user is present, correctly signed and     *)
(* unexpired at time t                                                     *)
RefreshUsable(user, t) ==
    /\ user.refresh_token # NoToken
    /\ ~jwt_decode_fails(user.refresh_token, REFRESH_TOKEN_SECRET_KEY, TRUE, t)

(* C3: a refresh request carrying a correctly signed access token for      *)
(* subject S (expired or not), while S's stored refresh token is usable,   *)
(* answers 200 with a new access token for S and leaves the database as it *)
(* was.                                                                    *)
C3_RotateSucceeds ==
    [][(/\ resp'.op = "refresh"
        /\ resp'.token.key = ACCESS_TOKEN_SECRET_KEY
        /\ \E u \in get_by_username(db.users, resp'.token.sub) : RefreshUsable(u, now))
       => (/\ resp'.status = HTTP_200_OK
           /\ resp'.body = [access_token |-> create_access_token(resp'.token.sub, now),
                            token_type |-> "bearer"]
           /\ db' = db)]_vars

(* C4: a refresh request whose subject has no usable stored refresh token  *)
(* (missing, expired or badly signed) answers 401, returns no token and    *)
(* changes nothing.                                                        *)
C4_RotateUnauthorized ==
    [][(/\ resp'.op = "refresh"
        /\ \A u \in get_by_username(db.users, resp'.token.sub) : ~RefreshUsable(u, now))
       => (/\ resp'.status = HTTP_401_UNAUTHORIZED
           /\ resp'.body = NoBody
           /\ db' = db /\ remote' = remote)]_vars

(* a refresh request with a well-signed access token was refused while the *)
(* subject's stored refresh token was present but expired                  *)
C4_Witness ==
    /\ resp.op = "refresh"
    /\ resp.status = HTTP_401_UNAUTHORIZED
    /\ resp.token.key = ACCESS_TOKEN_SECRET_KEY
    /\ \E u \in get_by_username(db.users, resp.token.sub) :
          /\ u.refresh_token # NoToken
          /\ u.refresh_token.exp < now

(* C5: a request guarded by get_current_user that carries an access token  *)
(* of an existing user is accepted as that user at every time before the   *)
(* token's expiry; it is answered 401 once the expiry has passed, when the *)
(* signature is invalid, or when the subject is missing.                   *)
C5_VerifyAccess ==
    [][resp'.op \in {"private_route", "logout"}
       => (/\ (/\ resp'.token.key = ACCESS_TOKEN_SECRET_KEY
               /\ get_by_username(db.users, resp'.token.sub) # {}
               /\ now < resp'.token.exp)
              => (/\ resp'.status = HTTP_200_OK
                  /\ resp'.op = "private_route" => resp'.body.user = resp'.token.sub
                  /\ resp'.op = "logout" =>
                        \A u \in get_by_username(db'.users, resp'.token.sub) :
                            u.refresh_token = NoToken)
           /\ (\/ now > resp'.token.exp
               \/ resp'.token.key # ACCESS_TOKEN_SECRET_KEY
               \/ resp'.token.sub = NoSub)
              => resp'.status = HTTP_401_UNAUTHORIZED)]_vars

(* a well-signed access token of an existing user was refused after its    *)
(* expiry                                                                  *)
C5_Witness ==
    /\ resp.op = "private_route"
    /\ resp.status = HTTP_401_UNAUTHORIZED
    /\ resp.token.key = ACCESS_TOKEN_SECRET_KEY
    /\ get_by_username(db.users, resp.token.sub) # {}
    /\ resp.token.exp < now

(* the request's credentials are those of an existing user *)
CorrectCredentials(users, args) ==
    \E u \in get_by_username(users, args.username) :
        u.hashed_password = get_password_hash(args.password)

(* C6: a login with the correct password of an existing user U answers 200 *)
(* with an access token for U, stores a fresh refresh token for U, and     *)
(* leaves the other users alone.                                           *)
C6_LoginSucceeds ==
    [][(resp'.op = "login" /\ CorrectCredentials(db.users, resp'.args))
       => (/\ resp'.status = HTTP_200_OK
           /\ resp'.body.access_token = create_access_token(resp'.args.username, now)
           /\ \A u \in get_by_username(db'.users, resp'.args.username) :
                 u.refresh_token = create_refresh_token(resp'.args.username, now)
           /\ \A u \in db.users : u.username # resp'.args.username => u \in db'.users)]_vars

(* C7: a login with an unknown username or a wrong password answers 401,   *)
(* returns no token and leaves the database unchanged.                     *)
C7_LoginUnauthorized ==
    [][(resp'.op = "login" /\ ~CorrectCredentials(db.users, resp'.args))
       => (/\ resp'.status = HTTP_401_UNAUTHORIZED
           /\ resp'.body = NoBody
           /\ db' = db)]_vars

(* a login naming an existing user with a wrong password was refused *)
C7_Witness ==
    /\ resp.op = "login"
    /\ resp.status = HTTP_401_UNAUTHORIZED
    /\ get_by_username(db.users, resp.args.username) # {}
    /\ ~CorrectCredentials(db.users, resp.args)

(* the request names the username or the email of an existing user *)
Duplicate(users, args) ==
    \/ get_by_username(users, args.username) # {}
    \/ args.email # NoEmail /\ get_by_email(users, args.email) # {}

(* the outcome of a registration with a fresh username and email: 200 with *)
(* the user stored unverified beside its vector store, or 500 when the     *)
(* remote vector-store creation raised                                     *)
FreshRegistration ==
    \/ /\ resp'.status = HTTP_200_OK
       /\ \E u \in db'.users \ db.users :
             /\ u.username = resp'.args.username
             /\ u.email = resp'.args.email
             /\ u.email_verified = FALSE
             /\ \E v \in db'.vector_stores \ db.vector_stores :
                   /\ v.user_id = u.id
                   /\ v.vector_store_id \in remote'.vector_stores \ remote.vector_stores
    \/ /\ resp'.status = HTTP_500_INTERNAL_SERVER_ERROR
       /\ resp'.calls = <<"vector_stores.create">>
       /\ remote' = remote
       /\ db'.vector_stores = db.vector_stores

C13_LogoutRevokes ==
    [][/\ (resp'.op = "logout" /\ resp'.status = HTTP_200_OK)
          => \E u \in get_current_user(resp'.token, db.users, now) :
                /\ db' = [db EXCEPT !.users =
                             {IF v = u THEN [v EXCEPT !.refresh_token = NoToken] ELSE v : v \in @}]
                /\ remote' = remote
       /\ (/\ resp'.op = "refresh"
           /\ \A u \in get_by_username(db.users, resp'.token.sub) : u.refresh_token = NoToken)
          => (resp'.status # HTTP_200_OK /\ resp'.body = NoBody)
       /\ \A u \in db.users : \A v \in db'.users :
             (v.username = u.username /\ u.refresh_token = NoToken /\ v.refresh_token # NoToken)
             => (resp'.op = "login" /\ resp'.args.username = u.username)]_vars

(* a user has logged out and holds no refresh token while another user's   *)
(* stored refresh token is still there                                     *)
C13_Witness ==
    /\ resp.op = "logout"
    /\ resp.status = HTTP_200_OK
    /\ \E u \in get_by_username(db.users, resp.token.sub) : u.refresh_token = NoToken
    /\ \E v \in db.users : v.username # resp.token.sub /\ v.refresh_token # NoToken

-----------------------------------------------------------------------------
(* Properties of the /chat routes *)

(* the request answered by resp' came from an authenticated user who is    *)
(* not the owner of the existing chat it names                             *)
ForeignRequest ==
    \E u \in get_current_user(resp'.token, db.users, now) :
        \E c \in Chat_get_by_id(db.chats, resp'.args.chat_id) : c.user_id # u.id

(* the same, of the request answered by resp, where the state is the one   *)
(* the request left                                                        *)
ForeignRequestServed ==
    \E u \in get_current_user(resp.token, db.users, now) :
        \E c \in Chat_get_by_id(db.chats, resp.args.chat_id) : c.user_id # u.id

(* C1: send-message, list-messages, delete-chat and reset-chat issued by   *)
(* an authenticated user on a chat of another user answer 403, and         *)
(* nothing is stored, changed, deleted or called remotely.                 *)
C1_ForeignChatForbidden ==
    [][(/\ resp'.op \in {"send_message", "get_chat_messages", "delete_chat",
                         "reset_chat_context"}
        /\ ForeignRequest)
       => (/\ resp'.status = HTTP_403_FORBIDDEN
           /\ resp'.body = NoBody
           /\ resp'.calls = <<>>
           /\ db' = db /\ remote' = remote)]_vars

(* a send-message naming another user's chat was answered 403 *)
C1_Witness ==
    /\ resp.op = "send_message"
    /\ resp.status = HTTP_403_FORBIDDEN
    /\ ForeignRequestServed

(* C2: upload-file (with an accepted file name) and list-files issued by   *)
(* an authenticated user on a chat of another user answer 403; no file row *)
(* is created, nothing is uploaded and no file name is returned.           *)
C2_ForeignFilesForbidden ==
    [][(/\ resp'.op \in {"upload_file", "get_chat_files"}
        /\ ForeignRequest
        /\ resp'.op = "upload_file" => ~filename_refused(resp'.args.filename))
       => (/\ resp'.status = HTTP_403_FORBIDDEN
           /\ resp'.body = NoBody
           /\ resp'.calls = <<>>
           /\ db' = db /\ remote' = remote)]_vars

(* C9: an upload whose file name is missing or ends in .exe is answered    *)
(* 400 before any remote call and any database write.                      *)
C9_RefusedUploadBadRequest ==
    [][(/\ resp'.op = "upload_file"
        /\ get_current_user(resp'.token, db.users, now) # {}
        /\ resp'.args.filename \in {<<>>, <<"a", ".", "e", "x", "e">>})
       => (/\ resp'.status = HTTP_400_BAD_REQUEST
           /\ resp'.calls = <<>>
           /\ db' = db /\ remote' = remote)]_vars

(* C10: a delete-chat request of the chat's owner in which a remote        *)
(* deletion raised still removes the chat row with its message and file    *)
(* rows.                                                                   *)
C10_DeleteDespiteRemoteFailure ==
    [][(/\ resp'.op = "delete_chat"
        /\ \E u \in get_current_user(resp'.token, db.users, now) :
              chat_access(db.chats, resp'.args.chat_id, u) = HTTP_200_OK
        /\ resp'.calls # <<>>
        /\ resp'.status = HTTP_500_INTERNAL_SERVER_ERROR)
       => (/\ Chat_get_by_id(db'.chats, resp'.args.chat_id) = {}
           /\ \A m \in db'.messages : m.chat_id # resp'.args.chat_id
           /\ \A f \in db'.files : f.chat_id # resp'.args.chat_id)]_vars

-----------------------------------------------------------------------------
(* Properties of the chat listing, checked under ListSpec *)

Max(a, b) == IF a > b THEN a ELSE b

(* C11: list-chats of user U with n chats, limit l and offset o answers    *)
(* total = n and min(l, max(n - o, 0)) items; every item is a chat of U,   *)
(* no chat is listed twice, the items are in descending updated_at order   *)
(* and item i stands at position o + i of U's chats sorted by updated_at   *)
(* descending.  Chats of other users are neither listed nor counted.       *)
C11_ListChatsPage ==
    [][resp'.op = "get_chats"
       => \A u \in get_current_user(resp'.token, db.users, now) :
             LET mine == {c \in db.chats : c.user_id = u.id}
                 items == resp'.body.items
                 l == resp'.args.limit
                 o == resp'.args.offset
             IN  /\ resp'.status = HTTP_200_OK
                 /\ resp'.body.total = Cardinality(mine)
                 /\ Len(items) = Min(l, Max(Cardinality(mine) - o, 0))
                 /\ \A i \in DOMAIN items :
                       /\ \E c \in mine : items[i] = [id |-> c.id, title |-> c.title,
                                                       updated_at |-> c.updated_at]
                       /\ Cardinality({c \in mine : c.updated_at > items[i].updated_at})
                             <= o + i - 1
                       /\ Cardinality({c \in mine : c.updated_at >= items[i].updated_at})
                             >= o + i
                 /\ \A i, j \in DOMAIN items :
                       i < j => /\ items[i].id # items[j].id
                                /\ items[i].updated_at >= items[j].updated_at]_vars

(* a listing with limit 1 and offset 1 returned one chat of a user who has *)
(* two chats updated at different times, while the other user has a chat   *)
(* updated later than both                                                 *)
C11_Witness ==
    /\ resp.op = "get_chats"
    /\ resp.status = HTTP_200_OK
    /\ resp.args = [limit |-> 1, offset |-> 1]
    /\ Len(resp.body.items) = 1
    /\ resp.body.total = 2
    /\ \E u \in get_current_user(resp.token, db.users, now) :
          /\ \E c, d \in db.chats :
                /\ c.user_id = u.id /\ d.user_id = u.id
                /\ c.updated_at > d.updated_at
                /\ resp.body.items[1].id = d.id
          /\ \E e \in db.chats :
                /\ e.user_id # u.id
                /\ \A c \in db.chats : c.user_id = u.id => e.updated_at > c.updated_at

-----------------------------------------------------------------------------
(* Properties of the conversation routes over time, checked under TimedSpec *)

-----------------------------------------------------------------------------
(* Properties of chat deletion, checked under DeleteSpec *)

(* C14: after a successful delete-chat of chat c the chat row is gone, no  *)
(* message row and no file row of c remains, every other chat row is as it *)
(* was and so is every message of every other chat.                        *)
C14_DeleteCascades ==
    [][(resp'.op = "delete_chat" /\ resp'.status = HTTP_200_OK)
       => (/\ db'.chats = {c \in db.chats : c.id # resp'.args.chat_id}
           /\ db'.messages = {m \in db.messages : m.chat_id # resp'.args.chat_id}
           /\ \A f \in db'.files : f.chat_id # resp'.args.chat_id)]_vars

(* a chat was deleted with some of the message rows, messages of another   *)
(* chat remain, and a file row that another user had put in the chat is    *)
(* gone too                                                                *)
C14_Witness ==
    /\ resp.op = "delete_chat"
    /\ resp.status = HTTP_200_OK
    /\ db.messages # {}
    /\ Cardinality(db.messages) < db.next_message_id - 1
    /\ resp.calls = <<"threads.delete">>
    /\ \E a \in remote.attached : \A f \in db.files : f.file_id # a[2]

-----------------------------------------------------------------------------
(* Properties of vector-store creation, checked under StoreSpec *)

(* C15: after every step each user has at most one vector-store record; a  *)
(* remote vector store is created only by a registration or by an upload   *)
(* of a user who has no vector-store record; and every remote vector store *)
(* is recorded for a user.                                                 *)
C15_OneRecordedVectorStore ==
    [][/\ \A u \in db'.users : Cardinality(VectorStore_get_by_user_id(db', u.id)) <= 1
       /\ remote'.vector_stores # remote.vector_stores
          => \/ resp'.op = "register"
             \/ /\ resp'.op = "upload_file"
                /\ \A u \in get_current_user(resp'.token, db.users, now) :
                      VectorStore_get_by_user_id(db, u.id) = {}
       /\ \A v \in remote'.vector_stores :
             \E r \in db'.vector_stores : r.vector_store_id = v]_vars

-----------------------------------------------------------------------------
(* Properties of title generation, checked under ChatSpec *)

(* the request answered by resp' was a send-message that went past the     *)
(* assistant's reply in a chat it had just created                         *)
TitleRequested ==
    /\ resp'.op = "send_message"
    /\ resp'.args.chat_id = NoChatId
    /\ Len(resp'.calls) > 4

(* C16: a send-message that reaches title generation is answered 200 with  *)
(* the assistant's reply, which is stored as a bot message of the chat;    *)
(* when a remote call of the title generation raised or the reply list was *)
(* empty, the title returned and stored is the fallback title.             *)
C16_TitleNeverFails ==
    [][TitleRequested
       => (/\ resp'.status = HTTP_200_OK
           /\ "generate_title" \in DOMAIN resp'
           /\ \E m \in db'.messages \ db.messages :
                 /\ m.chat_id = resp'.body.chat_id
                 /\ m.is_sent_by_bot
                 /\ m.content = resp'.body.response
           /\ resp'.generate_title.fail # "none"
              => (/\ resp'.generate_title.title = DefaultTitle
                  /\ \A c \in Chat_get_by_id(db'.chats, resp'.body.chat_id) :
                        c.title = DefaultTitle))]_vars

(* a send-message was answered with the reply although a remote call of    *)
(* its title generation had raised                                         *)
C16_Witness ==
    /\ resp.op = "send_message"
    /\ resp.status = HTTP_200_OK
    /\ "generate_title" \in DOMAIN resp
    /\ resp.generate_title.fail = "runs.create_and_poll"
    /\ \E c \in Chat_get_by_id(db.chats, resp.body.chat_id) : c.title = DefaultTitle
    /\ \E m \in db.messages : m.chat_id = resp.body.chat_id /\ m.is_sent_by_bot

(* C17: when a send-message that generated a title returns, the only new   *)
(* remote thread is the one of the chat it created: the disposable thread  *)
(* of the title generation is gone.                                        *)
C17_DisposableThreadDeleted ==
    [][(resp'.op = "send_message" /\ "generate_title" \in DOMAIN resp')
       => \A t \in remote'.threads \ remote.threads :
             \E c \in Chat_get_by_id(db'.chats, resp'.body.chat_id) : c.thread_id = t]_vars

(* C18: the first successful send-message in a chat, created by that       *)
(* request or by create-chat before, generates a title and stores it as    *)
(* the chat's title; a later exchange generates none and leaves the title. *)
C18_TitleAfterFirstExchange ==
    [][(resp'.op = "send_message" /\ resp'.status = HTTP_200_OK)
       => IF \E m \in db.messages : m.chat_id = resp'.body.chat_id /\ m.is_sent_by_bot
          THEN /\ "generate_title" \notin DOMAIN resp'
               /\ \A c \in Chat_get_by_id(db.chats, resp'.body.chat_id) :
                     \A d \in Chat_get_by_id(db'.chats, resp'.body.chat_id) : d.title = c.title
          ELSE /\ "generate_title" \in DOMAIN resp'
               /\ \A d \in Chat_get_by_id(db'.chats, resp'.body.chat_id) :
                     d.title = resp'.generate_title.title]_vars

-----------------------------------------------------------------------------
(* Properties of the attachment and guarded routes *)

(* C19: a send-message with a chat id, list-messages, delete-chat,         *)
(* reset-chat, upload-file (of an accepted file name) or list-files that   *)
(* names a chat id of no chat is answered 404 without a database write and *)
(* without a remote call.                                                  *)
C19_MissingChatNotFound ==
    [][(/\ resp'.op \in {"send_message", "get_chat_messages", "delete_chat",
                         "reset_chat_context", "upload_file", "get_chat_files"}
        /\ get_current_user(resp'.token, db.users, now) # {}
        /\ resp'.args.chat_id # NoChatId
        /\ Chat_get_by_id(db.chats, resp'.args.chat_id) = {}
        /\ resp'.op = "upload_file" => ~filename_refused(resp'.args.filename))
       => (/\ resp'.status = HTTP_404_NOT_FOUND
           /\ resp'.calls = <<>>
           /\ db' = db /\ remote' = remote)]_vars

GuardedRoutes ==
    {"logout", "create_chat", "send_message", "get_chats", "get_chat_messages",
     "delete_chat", "reset_chat_context", "upload_file", "get_chat_files"}

(* C20: a request to logout or to a chat route whose token is missing or   *)
(* refused by get_current_user is answered 401 without a database write    *)
(* and without a remote call.                                              *)
C20_GuardedRoutesUnauthorized ==
    [][(resp'.op \in GuardedRoutes /\ get_current_user(resp'.token, db.users, now) = {})
       => (/\ resp'.status = HTTP_401_UNAUTHORIZED
           /\ resp'.body = NoBody
           /\ resp'.calls = <<>>
           /\ db' = db /\ remote' = remote)]_vars

(* an upload to an existing chat with the expired token of its owner was   *)
(* refused                                                                 *)
C20_Witness ==
    /\ resp.op = "upload_file"
    /\ resp.status = HTTP_401_UNAUTHORIZED
    /\ resp.token.key = ACCESS_TOKEN_SECRET_KEY
    /\ resp.token.exp < now
    /\ ~filename_refused(resp.args.filename)
    /\ \E u \in get_by_username(db.users, resp.token.sub) :
          \E c \in Chat_get_by_id(db.chats, resp.args.chat_id) : c.user_id = u.id

-----------------------------------------------------------------------------
(* Properties of the exchange with the remote thread *)

(* C21: a send-message that is answered posted the user's message, ran the *)
(* run and fetched the reply in that order, added exactly two messages to  *)
(* the chat, first the user's with the request content and then the       *)
(* assistant's with the returned reply, and its run completed; a           *)
(* send-message that fails stores no assistant message.                    *)
C21_ExchangeInOrder ==
    [][resp'.op = "send_message"
       => LET added == db'.messages \ db.messages
          IN  IF resp'.status = HTTP_200_OK
              THEN /\ \E i \in 1 .. Len(resp'.calls) :
                        SubSeq(resp'.calls, i, i + 2)
                            = <<"messages.create", "runs.create_and_poll", "messages.list">>
                   /\ \E m1, m2 \in added :
                        /\ added = {m1, m2}
                        /\ m1.id < m2.id
                        /\ m1.chat_id = resp'.body.chat_id /\ m2.chat_id = resp'.body.chat_id
                        /\ ~m1.is_sent_by_bot /\ m1.content = resp'.args.content
                        /\ m2.is_sent_by_bot /\ m2.content = resp'.body.response
                   /\ resp'.run = "completed"
              ELSE \A m \in added : ~m.is_sent_by_bot]_vars

(* C22: after every request each chat's thread_id names a remote thread    *)
(* that exists and no two chats share a thread_id; a reset-chat that is    *)
(* answered leaves the chat with a thread created by it, the previous      *)
(* thread deleted and the messages as they were.                           *)
C22_ChatsThreadsCorrelated ==
    [][/\ \A c \in db'.chats : c.thread_id \in remote'.threads
       /\ \A c1, c2 \in db'.chats : c1.thread_id = c2.thread_id => c1.id = c2.id
       /\ (resp'.op = "reset_chat_context" /\ resp'.status = HTTP_200_OK)
          => \E old \in Chat_get_by_id(db.chats, resp'.args.chat_id) :
             \E new \in Chat_get_by_id(db'.chats, resp'.args.chat_id) :
                /\ new.thread_id \notin remote.threads
                /\ new.thread_id \in remote'.threads
                /\ old.thread_id \notin remote'.threads
                /\ db'.messages = db.messages]_vars

(* a send_message waits for a run *)
Waiting == request.pc \in {"polling", "title_polling"}

-----------------------------------------------------------------------------
(* Properties of the attachments of other chats, checked under DeleteSpec *)

(* C24: a delete-chat of chat c leaves the file rows of the caller's other *)
(* chats, their remote files and their links to the vector store as they   *)
(* were.                                                                   *)
C24_DeleteKeepsOtherAttachments ==
    [][(resp'.op = "delete_chat" /\ resp'.status = HTTP_200_OK)
       => \A c \in Chat_get_by_id(db.chats, resp'.args.chat_id) :
          \A other \in db.chats :
             (other.id # c.id /\ other.user_id = c.user_id)
             => \A f \in File_get_chat_files(db, other.id) :
                   /\ f \in db'.files
                   /\ f.file_id \in remote.files => f.file_id \in remote'.files
                   /\ <<f.vector_store_id, f.file_id>> \in remote.attached
                      => <<f.vector_store_id, f.file_id>> \in remote'.attached]_vars

-----------------------------------------------------------------------------
(* Properties of the access token and of the email flag, checked under Spec *)

(* C25: a request guarded by get_current_user is accepted exactly when its *)
(* token is signed with the access key, has not expired and names an       *)
(* existing user, whatever that user's stored refresh token; the token a   *)
(* logout was made with is accepted again by the next request.             *)
C25_AccessIgnoresRefreshToken ==
    [][resp'.op \in {"private_route", "logout"}
       => /\ resp'.status \in {HTTP_200_OK, HTTP_401_UNAUTHORIZED}
          /\ resp'.status = HTTP_200_OK
             <=> (/\ resp'.token.key = ACCESS_TOKEN_SECRET_KEY
                  /\ ~(resp'.token.exp < now)
                  /\ resp'.token.sub # NoSub
                  /\ get_by_username(db.users, resp'.token.sub) # {})
          /\ (resp.op = "logout" /\ resp.status = HTTP_200_OK /\ resp'.token = resp.token)
             => resp'.status = HTTP_200_OK]_vars

(* an access token issued at an earlier time was accepted for a user who   *)
(* has no stored refresh token                                             *)
C25_Witness ==
    /\ resp.op = "private_route"
    /\ resp.status = HTTP_200_OK
    /\ resp.token.exp < now + ACCESS_TOKEN_EXPIRE_MINUTES
    /\ \E u \in get_by_username(db.users, resp.token.sub) : u.refresh_token = NoToken

(* C26: a user row starts with email_verified false; the flag of an        *)
(* existing user never goes back to false and changes only in a            *)
(* verify-email request; a verify-email naming the email of a user answers *)
(* 200 and sets exactly that user's flag, whatever the code; one naming an *)
(* email of no user answers 404 and changes nothing.                       *)
C26_EmailVerifiedMonotonic ==
    [][/\ \A v \in db'.users :
             (\A u \in db.users : u.id # v.id) => ~v.email_verified
       /\ \A u \in db.users : \A v \in db'.users :
             u.id = v.id
             => /\ u.email_verified => v.email_verified
                /\ v.email_verified # u.email_verified => resp'.op = "verify_email"
       /\ resp'.op = "verify_email"
          => IF get_by_email(db.users, resp'.args.email) # {}
             THEN /\ resp'.status = HTTP_200_OK
                  /\ db' = [db EXCEPT !.users =
                               {IF u.email = resp'.args.email
                                THEN [u EXCEPT !.email_verified = TRUE] ELSE u : u \in @}]
             ELSE /\ resp'.status = HTTP_404_NOT_FOUND
                  /\ db' = db
                  /\ remote' = remote]_vars

(* a verify-email with the second code value has set the flag of one user  *)
(* while another user stays unverified                                     *)
C26_Witness ==
    /\ resp.op = "verify_email"
    /\ resp.status = HTTP_200_OK
    /\ resp.args.code = "c2"
    /\ \E u \in get_by_email(db.users, resp.args.email) : u.email_verified
    /\ \E u \in db.users : ~u.email_verified

====
